---- MODULE Spec2Model ----
(***************************************************************************)
(* discohook: the webhook listener (signature gate and interaction        *)
(* dispatch) and the interaction / response operations that touch the     *)
(* client's token cache and component registry.                           *)
(*                                                                         *)
(* One request scope is live at a time (`inter`, the Interaction object   *)
(* of the running handler); the client's state survives the scopes.       *)
(* `last` records what the last operation did: its arguments, the HTTP    *)
(* requests it issued and how it ended.                                    *)
(***************************************************************************)
EXTENDS Integers, Sequences, FiniteSets, TLC

VARIABLES
    inter,                \* the live Interaction object (id = NoId: none)
    cached_inter_tokens,  \* client.cached_inter_tokens: interaction id -> token
    active_components,    \* client.active_components: custom ids registered
    application_commands, \* request.app.application_commands: command ids
    ui_factory,           \* request.app.ui_factory: component custom ids
    last,                 \* the last operation: arguments, effects, outcome
    payload,              \* the payload dict of an Interaction whose properties are read
    command,              \* an ApplicationCommand object
    dlast                 \* the last operation on `payload` or `command`

vars == <<inter, cached_inter_tokens, active_components,
          application_commands, ui_factory, last, payload, command, dlast>>

\* the objects the listener and the response operations never touch
dataclasses == <<payload, command, dlast>>

client == <<cached_inter_tokens, active_components,
            application_commands, ui_factory>>

(***************************************************************************)
(* Bounds and input sets                                                   *)
(***************************************************************************)
NumIds == 2

InterIds == 1..NumIds
NoId == 0
EmptyToken == 0

\* payload["token"]: the token Discord issued for interaction `id`
TokenOf(id) == NumIds + id

\* payload["application_id"]
AppId == "app"

\* InteractionType members; "other" is a type value outside the enum
InteractionTypes == {"ping", "app_command", "component", "autocomplete", "modal_submit"}
WireTypes == InteractionTypes \cup {"other"}
\* the types of the interactions that reach user code
ObjTypes == {"app_command", "component", "autocomplete", "modal_submit"}

CommandIds == {"c1", "c2"}
CustomIds == {"", "btn", "x"}

\* view arguments: None / MISSING, or a View with its components' custom ids
NoView == [given |-> FALSE, components |-> {}]
Views == {[given |-> TRUE, components |-> {"btn"}]}
ViewArgs == {NoView} \cup Views
ModalIds == {"mdl"}
MessageIds == {"m1"}

\* autocomplete choices: Choice(name, value) objects, lists of the lengths around
\* the limit of response.py 240
MaxAutocompleteChoices == 25
MaxChoices == 26
ChoiceLens == {0, 1} \cup ((MaxAutocompleteChoices - 1)..MaxChoices)
ChoiceList(n) == [k \in 1..n |-> <<k, k>>]
ChoiceLists == {ChoiceList(n) : n \in ChoiceLens}
\* Choice.to_dict
Choice_to_dict(c) == [name |-> c[1], value |-> c[2]]

(***************************************************************************)
(* Request signature (listener.py 16-22)                                   *)
(***************************************************************************)
Keys == {"appkey", "otherkey"}
public_key == "appkey"
Timestamps == {1, 2}

\* the header X-Signature-Ed25519: absent, not hexadecimal, or the hex of a
\* signature made with `key` over (ts, body)
MissingSig == [kind |-> "missing", key |-> "", ts |-> 0, body |-> <<>>]
NonHexSig == [kind |-> "nonhex", key |-> "", ts |-> 0, body |-> <<>>]
Sign(key, ts, body) == [kind |-> "hex", key |-> key, ts |-> ts, body |-> body]

\* bytes.fromhex(str(signature)): str(None) = "None" is not hexadecimal
FromHexFails(sig) == sig.kind # "hex"

\* VerifyKey(public_key).verify(timestamp + body, signature)
Verify(key, ts, body, sig) == sig.key = key /\ sig.ts = ts /\ sig.body = body

\* payload["message"]["interaction"]["id"] of a component interaction: the id of
\* the interaction that produced the clicked message, another interaction
ParentsOf(id) == InterIds \ {id}

\* request bodies: the interaction payload Discord posts
Body(id, type, cmd, custom, parent) ==
    [id |-> id, type |-> type, cmd |-> cmd, custom_id |-> custom, parent |-> parent]

Bodies ==
    {Body(i, t, "", "", NoId) : i \in InterIds, t \in WireTypes \ {"app_command", "component"}}
    \cup {Body(i, "app_command", c, "", NoId) : i \in InterIds, c \in CommandIds}
    \cup UNION {{Body(i, "component", "", c, p) : c \in CustomIds, p \in ParentsOf(i)} :
                    i \in InterIds}

\* a body other than b (a payload altered after signing)
Tamper(b) == [b EXCEPT !.id = (b.id % NumIds) + 1]
OtherTs(ts) == (ts % 2) + 1

\* headers that do not verify for (ts, b)
BadSigHeaders(ts, b) ==
    {MissingSig, NonHexSig, Sign(public_key, ts, Tamper(b)),
     Sign(public_key, OtherTs(ts), b), Sign("otherkey", ts, b)}

Request(ts, b, sig) == [ts |-> ts, body |-> b, sig |-> sig]

\* the requests tried: every body correctly signed, and every failing header on
\* the bodies of the first interaction id
FirstTs == CHOOSE t \in Timestamps : \A u \in Timestamps : t <= u
GoodRequests == {Request(FirstTs, b, Sign(public_key, FirstTs, b)) : b \in Bodies}
BadRequests ==
    UNION {{Request(FirstTs, b, s) : s \in BadSigHeaders(FirstTs, b)} :
              b \in {x \in Bodies : x.id = 1}}
Requests == GoodRequests \cup BadRequests

(***************************************************************************)
(* Objects                                                                 *)
(***************************************************************************)
NoInter == [id |-> NoId, token |-> EmptyToken, type |-> "", parent |-> NoId,
            responded |-> FALSE]

\* Interaction(data, client): the object over a payload
Interaction(id, type, parent) ==
    [id |-> id, token |-> TokenOf(id), type |-> type, parent |-> parent,
     responded |-> FALSE]

NoHttp == <<>>
\* one call on client.http
Http(call, a, token, msg, type, data) ==
    [call |-> call, a |-> a, token |-> token, msg |-> msg, type |-> type, data |-> data]
NoData == [content |-> "", ephemeral |-> FALSE, view |-> NoView, choices |-> <<>>]
MsgData(content, ephemeral, view) ==
    [content |-> content, ephemeral |-> ephemeral, view |-> view, choices |-> <<>>]
\* {"choices": [...]}
ChoiceData(dicts) == [NoData EXCEPT !.choices = dicts]

\* client.store_inter_token(id, token)
store_inter_token(cache, id, token) ==
    [k \in DOMAIN cache \cup {id} |-> IF k = id THEN token ELSE cache[k]]

\* client.load_components(view)
load_components(active, view) == active \cup view.components

\* dict.pop(key, None)
Pop(cache, key) == [k \in DOMAIN cache \ {key} |-> cache[k]]

\* dict.get(key, default)
Get(cache, key, default) == IF key \in DOMAIN cache THEN cache[key] ELSE default

(***************************************************************************)
(* listener (listener.py 15-41)                                            *)
(***************************************************************************)
\* a verification that compares the key alone
listener_try_KeyOnly(req) ==
    IF FromHexFails(req.sig) THEN "ValueError"
    ELSE IF req.sig.key # public_key THEN "BadSignatureError"
    ELSE "ok"

\* lines 18-22: how the try block ends
listener_try(req) ==
    IF FromHexFails(req.sig) THEN "ValueError"
    ELSE IF ~Verify(public_key, req.ts, req.body, req.sig) THEN "BadSignatureError"
    ELSE "ok"

\* the command branch also taken for autocomplete interactions
listener_branch_AutocompleteAsCommand(b) ==
    IF b.type = "ping" THEN "ping"
    ELSE IF b.type \in {"app_command", "autocomplete"} THEN "app_command"
    ELSE IF b.type = "component" THEN "component"
    ELSE "else"

\* the ping test left out
listener_branch_NoPing(b) ==
    IF b.type = "app_command" THEN "app_command"
    ELSE IF b.type = "component" THEN "component"
    ELSE "else"

\* lines 25-41: the branch taken for a parsed interaction
listener_branch(b) ==
    IF b.type = "ping" THEN "ping"
    ELSE IF b.type = "app_command" THEN "app_command"
    ELSE IF b.type = "component" THEN "component"
    ELSE "else"

\* a lookup that ignores the command id
listener_command_AnyRegistered(b) ==
    IF application_commands # {} THEN CHOOSE c \in application_commands : TRUE ELSE ""

\* line 28: application_commands.get(interaction.app_command_data.id)
listener_command(b) == IF b.cmd \in application_commands THEN b.cmd ELSE ""

\* lines 36-38: ui_factory.get(custom_id) when custom_id is not empty
listener_component(b) ==
    IF b.custom_id # "" /\ b.custom_id \in ui_factory THEN b.custom_id ELSE ""

ListenerEvent(req, verified, parsed, branch, invoked, returned, status, content, raised) ==
    [op |-> "listener", req |-> req, verified |-> verified, parsed |-> parsed,
     branch |-> branch, invoked |-> invoked, returned |-> returned,
     status |-> status, content |-> content, raised |-> raised, http |-> NoHttp]

\* lines 21-22
listener_reject(req) ==
    ListenerEvent(req, FALSE, FALSE, "", <<>>, "Response", 401,
                  "request validation failed", "")

\* the exception leaves listener: no except clause matches it
listener_raise(req, exc) ==
    ListenerEvent(req, FALSE, FALSE, "", <<>>, "", 0, "", exc)

\* lines 24-41, the else block of the try
listener_dispatch(req) ==
    LET b == req.body
        br == listener_branch(b)
    IN  CASE br = "ping" ->
               ListenerEvent(req, TRUE, TRUE, br, <<>>, "JSONResponse", 200, "pong", "")
          [] br = "app_command" /\ listener_command(b) = "" ->
               \* line 30: the coroutine of Interaction.response is returned, not awaited
               ListenerEvent(req, TRUE, TRUE, br, <<>>, "coroutine", 0, "", "")
          [] br = "app_command" /\ listener_command(b) # "" ->
               ListenerEvent(req, TRUE, TRUE, br, <<<<"command", listener_command(b)>>>>,
                             "callback", 0, "", "")
          [] br = "component" /\ listener_component(b) # "" ->
               ListenerEvent(req, TRUE, TRUE, br, <<<<"component", listener_component(b)>>>>,
                             "callback", 0, "", "")
          [] br = "component" /\ listener_component(b) = "" ->
               ListenerEvent(req, TRUE, TRUE, br, <<>>, "None", 0, "", "")
          [] OTHER ->
               ListenerEvent(req, TRUE, TRUE, br, <<>>, "JSONResponse", 300,
                             "unhandled interaction type", "")

\* the else block run whatever the try block raised
listener_result_NoGate(req) ==
    IF listener_try(req) = "ValueError" THEN listener_raise(req, "ValueError")
    ELSE listener_dispatch(req)

\* lines 18-41
listener_result(req) ==
    LET t == listener_try(req)
    IN  IF t = "BadSignatureError" THEN listener_reject(req)
        ELSE IF t = "ok" THEN listener_dispatch(req)
        ELSE listener_raise(req, t)

\* a webhook request is handled: a new request scope. A callback receives the
\* parsed interaction; otherwise no Interaction object outlives the call
listener ==
    \E req \in Requests :
        LET ev == listener_result(req)
        IN  /\ last' = ev
            /\ inter' = IF ev.invoked # <<>>
                        THEN Interaction(req.body.id, req.body.type, req.body.parent)
                        ELSE NoInter
            /\ UNCHANGED <<client, dataclasses>>

(***************************************************************************)
(* Interaction objects built by the caller (interaction.py 56-59)          *)
(***************************************************************************)
OpEvent(op, args, http, raised, ret) ==
    [op |-> op, args |-> args, http |-> http, raised |-> raised, ret |-> ret,
     tok |-> EmptyToken]

\* the event of an operation that read or removed the cached token `tok`
WithToken(ev, tok) == [ev EXCEPT !.tok = tok]

NoArgs == [view |-> NoView, ephemeral |-> FALSE, custom_id |-> "", msg |-> "",
           choices |-> <<>>]
Args(view, ephemeral, custom, msg) ==
    [view |-> view, ephemeral |-> ephemeral, custom_id |-> custom, msg |-> msg,
     choices |-> <<>>]
ChoiceArgs(choices) == [NoArgs EXCEPT !.choices = choices]

Interaction_init ==
    \E id \in InterIds, t \in ObjTypes :
      \E p \in ParentsOf(id) :
        /\ inter' = Interaction(id, t, IF t = "component" THEN p ELSE NoId)
        /\ last' = OpEvent("Interaction", NoArgs, NoHttp, "", "Interaction")
        /\ UNCHANGED <<client, dataclasses>>

(***************************************************************************)
(* Outcomes of an operation                                                *)
(***************************************************************************)
\* a failed HTTP call issued a second time
Done_RetryOnce(op, args, http, ok, ret) ==
    OpEvent(op, args, IF ok THEN http ELSE http \o http,
            IF ok THEN "" ELSE "HTTPException", IF ok THEN ret ELSE "")

\* the operation ran to its HTTP call, which returned (ok) or raised
Done(op, args, http, ok, ret) ==
    OpEvent(op, args, http, IF ok THEN "" ELSE "HTTPException", IF ok THEN ret ELSE "")

\* raise InteractionTypeMismatch
Mismatch(op, args) == OpEvent(op, args, NoHttp, "InteractionTypeMismatch", "")

Live == inter.id # NoId

\* the token stored under the id of the interaction that produced the message
StoreIf_ParentKey(cond, i) ==
    IF cond
    THEN store_inter_token(cached_inter_tokens,
                           IF i.parent # NoId THEN i.parent ELSE i.id, i.token)
    ELSE cached_inter_tokens

\* `if view:` / `if view and view is not MISSING:` then store the token
StoreIf(cond, i) ==
    IF cond THEN store_inter_token(cached_inter_tokens, i.id, i.token)
    ELSE cached_inter_tokens

\* `if view:` then load the view's components
LoadIf(view) ==
    IF view.given THEN load_components(active_components, view) ELSE active_components

registries == <<application_commands, ui_factory>>

(***************************************************************************)
(* ResponseAdapter (response.py 137-380)                                   *)
(***************************************************************************)
\* the token stored and the components loaded once the request has returned
ResponseAdapter_send_StoreAfter(view, ok) ==
    /\ Live
    /\ cached_inter_tokens' = StoreIf(view.given /\ ok, inter)
    /\ active_components' = IF ok THEN LoadIf(view) ELSE active_components
    /\ inter' = [inter EXCEPT !.responded = IF ok THEN TRUE ELSE @]
    /\ last' = Done("ResponseAdapter.send", Args(view, FALSE, "", ""),
                    <<Http("send_interaction_mp_callback", inter.id, inter.token, "",
                           "channel_message_with_source", MsgData("", FALSE, view))>>,
                    ok, "InteractionResponse")
    /\ UNCHANGED <<registries, dataclasses>>

\* response.py 145-209
ResponseAdapter_send(view, ok) ==
    /\ Live
    /\ cached_inter_tokens' = StoreIf(view.given, inter)
    /\ active_components' = LoadIf(view)
    /\ inter' = [inter EXCEPT !.responded = IF ok THEN TRUE ELSE @]
    /\ last' = Done("ResponseAdapter.send", Args(view, FALSE, "", ""),
                    <<Http("send_interaction_mp_callback", inter.id, inter.token, "",
                           "channel_message_with_source", MsgData("", FALSE, view))>>,
                    ok, "InteractionResponse")
    /\ UNCHANGED <<registries, dataclasses>>

\* the modal left unregistered
send_modal_components_Unregistered(modal) == active_components

\* response.py 222: client.active_components[modal.custom_id] = modal
send_modal_components(modal) == active_components \cup {modal}

\* the modal registered before the interaction type is looked at
ResponseAdapter_send_modal_RegisterFirst(modal, ok) ==
    /\ Live
    /\ active_components' = send_modal_components(modal)
    /\ IF inter.type \notin {"component", "app_command"}
       THEN last' = Mismatch("ResponseAdapter.send_modal", Args(NoView, FALSE, modal, ""))
       ELSE last' = Done("ResponseAdapter.send_modal", Args(NoView, FALSE, modal, ""),
                         <<Http("send_interaction_callback", inter.id, inter.token, "",
                                "modal", NoData)>>, ok, "None")
    /\ UNCHANGED <<inter, cached_inter_tokens, registries, dataclasses>>

\* response.py 211-227
ResponseAdapter_send_modal(modal, ok) ==
    /\ Live
    /\ IF inter.type \notin {"component", "app_command"}
       THEN /\ last' = Mismatch("ResponseAdapter.send_modal", Args(NoView, FALSE, modal, ""))
            /\ UNCHANGED <<inter, client, dataclasses>>
       ELSE /\ active_components' = send_modal_components(modal)
            /\ last' = Done("ResponseAdapter.send_modal", Args(NoView, FALSE, modal, ""),
                            <<Http("send_interaction_callback", inter.id, inter.token, "",
                                   "modal", NoData)>>, ok, "None")
            /\ UNCHANGED <<inter, cached_inter_tokens, registries, dataclasses>>

\* the choices sent without the cut
autocomplete_choices_Uncut(choices) ==
    [k \in 1..Len(choices) |-> Choice_to_dict(choices[k])]

\* response.py 240-243: choices[:25], each choice serialized
autocomplete_choices(choices) ==
    LET n == IF Len(choices) < MaxAutocompleteChoices THEN Len(choices)
             ELSE MaxAutocompleteChoices
    IN  [k \in 1..n |-> Choice_to_dict(choices[k])]

\* response.py 229-245
ResponseAdapter_autocomplete(choices, ok) ==
    /\ Live
    /\ IF inter.type # "autocomplete"
       THEN last' = Mismatch("ResponseAdapter.autocomplete", NoArgs)
       ELSE last' = Done("ResponseAdapter.autocomplete", ChoiceArgs(choices),
                         <<Http("send_interaction_callback", inter.id, inter.token, "",
                                "autocomplete", ChoiceData(autocomplete_choices(choices)))>>,
                         ok, "None")
    /\ UNCHANGED <<inter, client, dataclasses>>

\* every accepted type deferred as a new message
defer_type_AlwaysSource(type) ==
    IF type \in {"component", "app_command", "modal_submit"}
    THEN "deferred_channel_message_with_source"
    ELSE ""

\* response.py 256-264: the callback type, "" when the type is rejected
defer_type(type) ==
    IF type = "component" THEN "deferred_update_component_message"
    ELSE IF type \in {"app_command", "modal_submit"}
         THEN "deferred_channel_message_with_source"
         ELSE ""

\* response.py 259-262: payload["data"] = {"flags": 64}
defer_data(type, ephemeral) ==
    IF type \in {"app_command", "modal_submit"} /\ ephemeral
    THEN MsgData("", TRUE, NoView) ELSE NoData

\* the flag set before the request is awaited
ResponseAdapter_defer_RespondedFirst(ephemeral, ok) ==
    /\ Live
    /\ IF defer_type(inter.type) = ""
       THEN /\ last' = Mismatch("ResponseAdapter.defer", Args(NoView, ephemeral, "", ""))
            /\ UNCHANGED inter
       ELSE /\ last' = Done("ResponseAdapter.defer", Args(NoView, ephemeral, "", ""),
                            <<Http("send_interaction_callback", inter.id, inter.token, "",
                                   defer_type(inter.type),
                                   defer_data(inter.type, ephemeral))>>,
                            ok, "InteractionResponse")
            /\ inter' = [inter EXCEPT !.responded = TRUE]
    /\ UNCHANGED <<client, dataclasses>>

\* response.py 247-268
ResponseAdapter_defer(ephemeral, ok) ==
    /\ Live
    /\ IF defer_type(inter.type) = ""
       THEN /\ last' = Mismatch("ResponseAdapter.defer", Args(NoView, ephemeral, "", ""))
            /\ UNCHANGED inter
       ELSE /\ last' = Done("ResponseAdapter.defer", Args(NoView, ephemeral, "", ""),
                            <<Http("send_interaction_callback", inter.id, inter.token, "",
                                   defer_type(inter.type),
                                   defer_data(inter.type, ephemeral))>>,
                            ok, "InteractionResponse")
            /\ inter' = [inter EXCEPT !.responded = IF ok THEN TRUE ELSE @]
    /\ UNCHANGED <<client, dataclasses>>

\* response.py 270-323
ResponseAdapter_update_message(view, ok) ==
    /\ Live
    /\ IF inter.type \in {"autocomplete", "app_command"}
       THEN /\ last' = Mismatch("ResponseAdapter.update_message", Args(view, FALSE, "", ""))
            /\ UNCHANGED <<inter, client, dataclasses>>
       ELSE /\ active_components' = LoadIf(view)
            /\ cached_inter_tokens' = StoreIf(TRUE, inter)
            /\ last' = Done("ResponseAdapter.update_message", Args(view, FALSE, "", ""),
                            <<Http("send_interaction_mp_callback", inter.id, inter.token, "",
                                   "update_component_message", MsgData("", FALSE, view))>>,
                            ok, "None")
            /\ UNCHANGED <<inter, registries, dataclasses>>

\* response.py 325-380
ResponseAdapter_followup(view, ok) ==
    /\ Live
    /\ cached_inter_tokens' = StoreIf(view.given, inter)
    /\ active_components' = LoadIf(view)
    /\ last' = Done("ResponseAdapter.followup", Args(view, FALSE, "", ""),
                    <<Http("send_webhook_message", AppId, inter.token, "", "",
                           MsgData("", FALSE, view))>>, ok, "FollowupResponse")
    /\ UNCHANGED <<inter, registries, dataclasses>>

(***************************************************************************)
(* InteractionResponse, FollowupResponse (response.py 18-134)              *)
(***************************************************************************)
\* response.py 26-32
InteractionResponse_delete(ok) ==
    /\ Live
    /\ last' = Done("InteractionResponse.delete", NoArgs,
                    <<Http("delete_webhook_message", AppId, inter.token, "@original", "",
                           NoData)>>, ok, "None")
    /\ UNCHANGED <<inter, client, dataclasses>>

\* response.py 34-73
InteractionResponse_edit(view, ok) ==
    /\ Live
    /\ active_components' = LoadIf(view)
    /\ cached_inter_tokens' = StoreIf(TRUE, inter)
    /\ last' = Done("InteractionResponse.edit", Args(view, FALSE, "", ""),
                    <<Http("edit_webhook_message", AppId, inter.token, "@original", "",
                           MsgData("", FALSE, view))>>, ok, "Message")
    /\ UNCHANGED <<inter, registries, dataclasses>>

\* response.py 85-93
FollowupResponse_delete(msg, ok) ==
    /\ Live
    /\ last' = Done("FollowupResponse.delete", Args(NoView, FALSE, "", msg),
                    <<Http("delete_webhook_message", AppId, inter.token, msg, "",
                           NoData)>>, ok, "None")
    /\ UNCHANGED <<inter, client, dataclasses>>

\* response.py 95-134
FollowupResponse_edit(msg, view, ok) ==
    /\ Live
    /\ active_components' = LoadIf(view)
    /\ cached_inter_tokens' = StoreIf(TRUE, inter)
    /\ last' = Done("FollowupResponse.edit", Args(view, FALSE, "", msg),
                    <<Http("edit_webhook_message", AppId, inter.token, msg, "",
                           MsgData("", FALSE, view))>>, ok, "Message")
    /\ UNCHANGED <<inter, registries, dataclasses>>

(***************************************************************************)
(* Interaction (interaction.py 20-345)                                     *)
(***************************************************************************)
\* interaction.py 221-237
Interaction_send_modal(modal, ok) ==
    /\ Live
    /\ active_components' = active_components \cup {modal}
    /\ last' = Done("Interaction.send_modal", Args(NoView, FALSE, modal, ""),
                    <<Http("send_interaction_callback", inter.id, inter.token, "",
                           "modal", NoData)>>, ok, "None")
    /\ UNCHANGED <<inter, cached_inter_tokens, registries, dataclasses>>

\* interaction.py 239-252: every choice is sent
Interaction_autocomplete(choices, ok) ==
    /\ Live
    /\ last' = Done("Interaction.autocomplete", ChoiceArgs(choices),
                    <<Http("send_interaction_callback", inter.id, inter.token, "",
                           "autocomplete_result",
                           ChoiceData([k \in 1..Len(choices) |->
                                          Choice_to_dict(choices[k])]))>>, ok, "None")
    /\ UNCHANGED <<inter, client, dataclasses>>

\* interaction.py 254-268
Interaction_defer(ephemeral, ok) ==
    /\ Live
    /\ last' = Done("Interaction.defer", Args(NoView, ephemeral, "", ""),
                    <<Http("send_interaction_callback", inter.id, inter.token, "",
                           "deferred_channel_message_with_source",
                           IF ephemeral THEN MsgData("", TRUE, NoView) ELSE NoData)>>,
                    ok, "None")
    /\ UNCHANGED <<inter, client, dataclasses>>

\* interaction.py 311-331: what an awaited Interaction.response sends
response_http(i, content, view, ephemeral) ==
    <<Http("send_interaction_mp_callback", i.id, i.token, "",
           "channel_message_with_source", MsgData(content, ephemeral, view))>>

\* interaction.py 270-332
Interaction_response(view, ephemeral, ok) ==
    /\ Live
    /\ cached_inter_tokens' = StoreIf(view.given, inter)
    /\ active_components' = LoadIf(view)
    /\ last' = Done("Interaction.response", Args(view, ephemeral, "", ""),
                    response_http(inter, "", view, ephemeral), ok, "InteractionResponse")
    /\ UNCHANGED <<inter, registries, dataclasses>>

\* interaction.py 334-345
Interaction_original_response(ok) ==
    /\ Live
    /\ last' = Done("Interaction.original_response", NoArgs,
                    <<Http("fetch_original_webhook_message", AppId, inter.token, "", "",
                           NoData)>>, ok, "Message")
    /\ UNCHANGED <<inter, client, dataclasses>>

(***************************************************************************)
(* ComponentInteraction (interaction.py 348-542)                           *)
(***************************************************************************)
IsComponent == Live /\ inter.type = "component"

\* interaction.py 389-449
ComponentInteraction_followup(view, ok) ==
    /\ IsComponent
    /\ cached_inter_tokens' = StoreIf(view.given, inter)
    /\ active_components' = LoadIf(view)
    /\ last' = Done("ComponentInteraction.followup", Args(view, FALSE, "", ""),
                    <<Http("send_interaction_mp_callback", inter.id, inter.token, "",
                           "channel_message_with_source", MsgData("", FALSE, view))>>,
                    ok, "FollowupResponse")
    /\ UNCHANGED <<inter, registries, dataclasses>>

\* interaction.py 451-505
ComponentInteraction_edit_original(view, ok) ==
    /\ IsComponent
    /\ cached_inter_tokens' = StoreIf(view.given, inter)
    /\ active_components' = LoadIf(view)
    /\ last' = Done("ComponentInteraction.edit_original", Args(view, FALSE, "", ""),
                    <<Http("edit_interaction_mp_callback", inter.id, inter.token, "",
                           "update_message", MsgData("", FALSE, view))>>, ok, "None")
    /\ UNCHANGED <<inter, registries, dataclasses>>

\* interaction.py 518: self.message.interaction_data["id"], the id of the
\* interaction the clicked message answers
parent_id(i) == i.parent

\* the token looked up under the component interaction's own id
origin_OwnId(i) == Get(cached_inter_tokens, i.id, EmptyToken)

\* interaction.py 507-519: the token cached under the parent interaction's id
origin(i) == Get(cached_inter_tokens, parent_id(i), EmptyToken)

\* interaction.py 507-519: the property read
ComponentInteraction_origin ==
    /\ IsComponent
    /\ last' = WithToken(OpEvent("ComponentInteraction.origin", NoArgs, NoHttp, "", "str"),
                         origin(inter))
    /\ UNCHANGED <<inter, client, dataclasses>>

\* interaction.py 521-533
ComponentInteraction_original_message(ok) ==
    /\ IsComponent
    /\ IF origin(inter) = EmptyToken
       THEN last' = OpEvent("ComponentInteraction.original_message", NoArgs, NoHttp, "", "None")
       ELSE last' = Done("ComponentInteraction.original_message", NoArgs,
                         <<Http("fetch_original_webhook_message", AppId, origin(inter), "",
                                "", NoData)>>, ok, "Message")
    /\ UNCHANGED <<inter, client, dataclasses>>

\* the entry of the parent interaction popped
delete_original_key_Parent(i) == i.parent

\* interaction.py 541: the entry popped from the cache
delete_original_key(i) == i.id

\* the entry popped before origin is looked at
ComponentInteraction_delete_original_PopFirst(ok) ==
    /\ IsComponent
    /\ cached_inter_tokens' = Pop(cached_inter_tokens, delete_original_key(inter))
    /\ IF origin(inter) = EmptyToken
       THEN last' = OpEvent("ComponentInteraction.delete_original", NoArgs, NoHttp, "",
                            "None")
       ELSE last' = WithToken(
                   Done("ComponentInteraction.delete_original", NoArgs,
                        <<Http("delete_webhook_message", AppId,
                               Get(cached_inter_tokens', inter.parent, EmptyToken),
                               "@original", "", NoData)>>, ok, "None"),
                   Get(cached_inter_tokens, delete_original_key(inter), EmptyToken))
    /\ UNCHANGED <<inter, active_components, registries, dataclasses>>

\* interaction.py 535-542
ComponentInteraction_delete_original(ok) ==
    /\ IsComponent
    /\ IF origin(inter) = EmptyToken
       THEN /\ last' = OpEvent("ComponentInteraction.delete_original", NoArgs, NoHttp, "",
                               "None")
            /\ UNCHANGED cached_inter_tokens
       ELSE /\ cached_inter_tokens' = Pop(cached_inter_tokens, delete_original_key(inter))
            /\ last' = WithToken(
                   Done("ComponentInteraction.delete_original", NoArgs,
                        <<Http("delete_webhook_message", AppId,
                               Get(cached_inter_tokens', inter.parent, EmptyToken),
                               "@original", "", NoData)>>, ok, "None"),
                   Get(cached_inter_tokens, delete_original_key(inter), EmptyToken))
    /\ UNCHANGED <<inter, active_components, registries, dataclasses>>

(***************************************************************************)
(* Message, FollowupMessage, ResponseMessage (message.py)                  *)
(***************************************************************************)
\* message.py 85-89
Message_delete(msg, ok) ==
    /\ last' = Done("Message.delete", Args(NoView, FALSE, "", msg),
                    <<Http("delete_message", "channel", EmptyToken, msg, "", NoData)>>,
                    ok, "None")
    /\ UNCHANGED <<inter, client, dataclasses>>

\* message.py 91-143
Message_edit(msg, view, ok) ==
    /\ active_components' = LoadIf(view)
    /\ last' = Done("Message.edit", Args(view, FALSE, "", msg),
                    <<Http("edit_channel_message", "channel", EmptyToken, msg, "",
                           MsgData("", FALSE, view))>>, ok, "Message")
    /\ UNCHANGED <<inter, cached_inter_tokens, registries, dataclasses>>

\* message.py 154-162
FollowupMessage_delete(msg, ok) ==
    /\ Live
    /\ last' = Done("FollowupMessage.delete", Args(NoView, FALSE, "", msg),
                    <<Http("delete_webhook_message", AppId, inter.token, msg, "",
                           NoData)>>, ok, "None")
    /\ UNCHANGED <<inter, client, dataclasses>>

\* message.py 164-203
FollowupMessage_edit(msg, view, ok) ==
    /\ Live
    /\ active_components' = LoadIf(view)
    /\ cached_inter_tokens' = StoreIf(TRUE, inter)
    /\ last' = Done("FollowupMessage.edit", Args(view, FALSE, "", msg),
                    <<Http("edit_webhook_message", AppId, inter.token, msg, "",
                           MsgData("", FALSE, view))>>, ok, "Message")
    /\ UNCHANGED <<inter, registries, dataclasses>>

\* message.py 214-222: the coroutine of delete_webhook_message is returned, not
\* awaited: no request is issued by the call
ResponseMessage_delete ==
    /\ Live
    /\ last' = OpEvent("ResponseMessage.delete", NoArgs, NoHttp, "", "coroutine")
    /\ UNCHANGED <<inter, client, dataclasses>>

\* message.py 224-263: edit_webhook_message is called without await, so
\* `await resp.json()` raises on the coroutine object and no request is issued
ResponseMessage_edit(view) ==
    /\ Live
    /\ active_components' = LoadIf(view)
    /\ cached_inter_tokens' = StoreIf(TRUE, inter)
    /\ last' = OpEvent("ResponseMessage.edit", Args(view, FALSE, "", ""), NoHttp,
                       "AttributeError", "")
    /\ UNCHANGED <<inter, registries, dataclasses>>

(***************************************************************************)
(* https.request (https.py 7-10)                                           *)
(***************************************************************************)

\* one session.request on ROOT + path; its failure, or that of resp.json(),
\* leaves the function
https_request(method, ok) ==
    /\ last' = Done("https.request", NoArgs,
                    <<Http(method, "path", EmptyToken, "", "", NoData)>>, ok, "json")
    /\ UNCHANGED <<inter, client, dataclasses>>

(***************************************************************************)
(* The operations with their inputs                                        *)
(***************************************************************************)
send == \E view \in ViewArgs, ok \in BOOLEAN : ResponseAdapter_send(view, ok)
send_modal == \E modal \in ModalIds, ok \in BOOLEAN : ResponseAdapter_send_modal(modal, ok)
autocomplete ==
    \E choices \in ChoiceLists, ok \in BOOLEAN : ResponseAdapter_autocomplete(choices, ok)
defer == \E ephemeral \in BOOLEAN, ok \in BOOLEAN : ResponseAdapter_defer(ephemeral, ok)
update_message ==
    \E view \in ViewArgs, ok \in BOOLEAN : ResponseAdapter_update_message(view, ok)
followup == \E view \in ViewArgs, ok \in BOOLEAN : ResponseAdapter_followup(view, ok)
response_delete == \E ok \in BOOLEAN : InteractionResponse_delete(ok)
response_edit == \E view \in ViewArgs, ok \in BOOLEAN : InteractionResponse_edit(view, ok)
followup_delete == \E msg \in MessageIds, ok \in BOOLEAN : FollowupResponse_delete(msg, ok)
followup_edit ==
    \E msg \in MessageIds, view \in ViewArgs, ok \in BOOLEAN :
        FollowupResponse_edit(msg, view, ok)
inter_send_modal == \E modal \in ModalIds, ok \in BOOLEAN : Interaction_send_modal(modal, ok)
inter_autocomplete ==
    \E choices \in {ChoiceList(0), ChoiceList(1)}, ok \in BOOLEAN :
        Interaction_autocomplete(choices, ok)
inter_defer == \E ephemeral \in BOOLEAN, ok \in BOOLEAN : Interaction_defer(ephemeral, ok)
inter_response ==
    \E view \in ViewArgs, ephemeral \in BOOLEAN, ok \in BOOLEAN :
        Interaction_response(view, ephemeral, ok)
inter_original_response == \E ok \in BOOLEAN : Interaction_original_response(ok)
component_followup ==
    \E view \in ViewArgs, ok \in BOOLEAN : ComponentInteraction_followup(view, ok)
component_edit_original ==
    \E view \in ViewArgs, ok \in BOOLEAN : ComponentInteraction_edit_original(view, ok)
component_original_message == \E ok \in BOOLEAN : ComponentInteraction_original_message(ok)
component_delete_original == \E ok \in BOOLEAN : ComponentInteraction_delete_original(ok)
message_delete == \E msg \in MessageIds, ok \in BOOLEAN : Message_delete(msg, ok)
message_edit ==
    \E msg \in MessageIds, view \in ViewArgs, ok \in BOOLEAN : Message_edit(msg, view, ok)
followup_message_delete ==
    \E msg \in MessageIds, ok \in BOOLEAN : FollowupMessage_delete(msg, ok)
followup_message_edit ==
    \E msg \in MessageIds, view \in ViewArgs, ok \in BOOLEAN :
        FollowupMessage_edit(msg, view, ok)
response_message_delete == ResponseMessage_delete
response_message_edit == \E view \in ViewArgs : ResponseMessage_edit(view)
request == \E method \in {"GET", "POST"}, ok \in BOOLEAN : https_request(method, ok)

(***************************************************************************)
(* Specification                                                           *)
(***************************************************************************)
\* the client after construction, before any request
InitClient ==
    /\ inter = NoInter
    /\ cached_inter_tokens = [k \in {} |-> EmptyToken]
    /\ active_components = {}
    /\ application_commands = {"c1"}
    /\ ui_factory = {"btn"}
    /\ last = OpEvent("init", NoArgs, NoHttp, "", "")

NoObject == [kind |-> "none"]
NoDataOp == [op |-> "init"]

Init ==
    /\ InitClient
    /\ payload = NoObject
    /\ command = NoObject
    /\ dlast = NoDataOp

Next ==
    \/ listener
    \/ Interaction_init
    \/ send_modal
    \/ inter_send_modal
    \/ send
    \/ autocomplete
    \/ defer
    \/ update_message
    \/ followup
    \/ response_delete
    \/ response_edit
    \/ followup_delete
    \/ followup_edit
    \/ inter_autocomplete
    \/ inter_defer
    \/ inter_response
    \/ inter_original_response
    \/ component_followup
    \/ component_edit_original
    \/ component_original_message
    \/ ComponentInteraction_origin
    \/ component_delete_original
    \/ message_delete
    \/ message_edit
    \/ followup_message_delete
    \/ followup_message_edit
    \/ response_message_delete
    \/ response_message_edit
    \/ request

Spec == Init /\ [][Next]_vars

(***************************************************************************)
(* Properties of the listener                                              *)
(***************************************************************************)
IsListener == last.op = "listener"
ReqVerifies(req) ==
    ~FromHexFails(req.sig) /\ Verify(public_key, req.ts, req.body, req.sig)
Rejected401 ==
    /\ last.returned = "Response"
    /\ last.status = 401
    /\ last.content = "request validation failed"

\* C1: a request whose (well-formed) signature does not verify against
\* timestamp + body under the application's public key is answered with
\* status 401 and the body 'request validation failed'.
C1_BadSignature401 ==
    (IsListener /\ ~FromHexFails(last.req.sig) /\ ~ReqVerifies(last.req)) => Rejected401

\* a body altered after signing was rejected
C1_Witness ==
    /\ IsListener
    /\ last.req.sig.kind = "hex"
    /\ last.req.sig.key = public_key
    /\ last.req.sig.body # last.req.body
    /\ Rejected401

\* C2: no callback is invoked and the body is not parsed into an Interaction
\* unless the signature of that same request verified.
C2_NothingBeforeVerification ==
    IsListener =>
        /\ (last.parsed \/ last.invoked # <<>>) => (last.verified /\ ReqVerifies(last.req))
        /\ last.invoked # <<>> => inter.id = last.req.body.id

\* a callback ran for a verified request
C2_Witness ==
    /\ IsListener
    /\ last.invoked # <<>>
    /\ ReqVerifies(last.req)
    /\ inter.id = last.req.body.id

\* C3: a request whose signature header is missing or not hexadecimal is
\* rejected with status 401, like a signature that does not match.
C3_MalformedSignature401 ==
    (IsListener /\ FromHexFails(last.req.sig)) => Rejected401

\* C4: a verified request takes the branch its interaction type selects, and at
\* most one callback is invoked: for an application command that of the command
\* registered under the command id, for a component that of the component
\* registered under the custom_id.
C4_DispatchByType ==
    (IsListener /\ last.verified) =>
        LET b == last.req.body
        IN  /\ last.branch = IF b.type \in {"ping", "app_command", "component"}
                             THEN b.type ELSE "else"
            /\ Len(last.invoked) <= 1
            /\ last.invoked # <<>> =>
                 \/ /\ b.type = "app_command"
                    /\ b.cmd \in application_commands
                    /\ last.invoked[1] = <<"command", b.cmd>>
                 \/ /\ b.type = "component"
                    /\ b.custom_id \in ui_factory
                    /\ last.invoked[1] = <<"component", b.custom_id>>

\* the callback of a registered command ran
C4_Witness ==
    /\ IsListener
    /\ last.verified
    /\ last.req.body.type = "app_command"
    /\ last.invoked = <<<<"command", last.req.body.cmd>>>>

\* C5: a verified request whose type is none of ping, application command or
\* component is answered with status 300 and 'unhandled interaction type', and
\* no handler is invoked.
C5_UnhandledType300 ==
    (IsListener /\ last.verified
       /\ last.req.body.type \notin {"ping", "app_command", "component"}) =>
        /\ last.returned = "JSONResponse"
        /\ last.status = 300
        /\ last.content = "unhandled interaction type"
        /\ last.invoked = <<>>

\* an autocomplete interaction was answered with 300
C5_Witness ==
    /\ IsListener
    /\ last.verified
    /\ last.req.body.type = "autocomplete"
    /\ last.status = 300

\* C6: a verified application command whose command id is not registered has
\* the ephemeral response 'command not implemented!' sent for that interaction
\* before the listener returns, and no command callback is invoked.
C6_NotImplementedResponseSent ==
    (IsListener /\ last.verified /\ last.req.body.type = "app_command"
       /\ last.req.body.cmd \notin application_commands) =>
        /\ last.invoked = <<>>
        /\ last.http = response_http(Interaction(last.req.body.id, "app_command", NoId),
                                     "command not implemented!", NoView, TRUE)

\* C7: a verified ping is answered with status 200 and the pong callback type;
\* no handler is invoked and the token cache and the registered components do
\* not change.
C7_PingPong ==
    [][(last'.op = "listener" /\ last'.verified /\ last'.req.body.type = "ping") =>
          /\ last'.returned = "JSONResponse"
          /\ last'.status = 200
          /\ last'.content = "pong"
          /\ last'.invoked = <<>>
          /\ UNCHANGED <<cached_inter_tokens, active_components, ui_factory>>]_vars

\* a ping was answered while tokens and components were held
C7_Witness ==
    /\ IsListener
    /\ last.verified
    /\ last.req.body.type = "ping"
    /\ last.status = 200
    /\ DOMAIN cached_inter_tokens # {}
    /\ active_components # {}

(***************************************************************************)
(* Properties of the client's state                                        *)
(***************************************************************************)
\* C8: every entry of the token cache maps an interaction id to the token of
\* that same interaction.
C8_CacheHoldsOwnTokens ==
    \A k \in DOMAIN cached_inter_tokens :
        k \in InterIds /\ cached_inter_tokens[k] = TokenOf(k)

\* the tokens of two interactions are cached, one of them a component's
C8_Witness ==
    /\ Cardinality(DOMAIN cached_inter_tokens) >= 2
    /\ inter.type = "component"
    /\ inter.id \in DOMAIN cached_inter_tokens
    /\ inter.parent \in DOMAIN cached_inter_tokens

\* C9 as stated: no operation removes an entry of the token cache.
C9_NoEntryRemoved ==
    [][DOMAIN cached_inter_tokens \subseteq DOMAIN cached_inter_tokens']_vars

\* C9: no operation other than ComponentInteraction.delete_original removes an
\* entry of the token cache; delete_original, when a token is cached for the
\* parent interaction, removes the entry under the component interaction's own
\* id and no other.
C9_OnlyDeleteOriginalRemoves ==
    [][IF last'.op = "ComponentInteraction.delete_original"
       THEN IF origin(inter) = EmptyToken
            THEN UNCHANGED cached_inter_tokens
            ELSE /\ DOMAIN cached_inter_tokens' = DOMAIN cached_inter_tokens \ {inter.id}
                 /\ \A k \in DOMAIN cached_inter_tokens' :
                        cached_inter_tokens'[k] = cached_inter_tokens[k]
       ELSE DOMAIN cached_inter_tokens \subseteq DOMAIN cached_inter_tokens']_vars

\* delete_original removed the cached token of the component interaction
C9_Witness ==
    /\ last.op = "ComponentInteraction.delete_original"
    /\ last.tok = inter.token
    /\ inter.id \notin DOMAIN cached_inter_tokens
    /\ inter.parent \in DOMAIN cached_inter_tokens

SendModalOps == {"ResponseAdapter.send_modal", "Interaction.send_modal"}
DeferOps == {"ResponseAdapter.defer", "Interaction.defer"}
DeleteOps == {"InteractionResponse.delete", "FollowupResponse.delete"}
InteractionOps ==
    SendModalOps \cup DeferOps \cup DeleteOps \cup
    {"ResponseAdapter.send", "ResponseAdapter.update_message", "ResponseAdapter.followup",
     "InteractionResponse.edit", "FollowupResponse.edit", "Interaction.response",
     "ComponentInteraction.followup", "ComponentInteraction.edit_original"}

FollowupOps == {"ResponseAdapter.followup", "ComponentInteraction.followup"}

\* C11: every followup operation issues its request to the webhook-message
\* call with (application_id, token), never to the interaction callback.
C11_FollowupViaWebhook ==
    last.op \in FollowupOps =>
        /\ Len(last.http) = 1
        /\ last.http[1].call = "send_webhook_message"
        /\ last.http[1].a = AppId
        /\ last.http[1].token = inter.token

\* C12: ResponseAdapter.followup issues its webhook request for an interaction
\* only if a send or defer for it has completed (the interaction is responded).
C12_FollowupAfterResponse ==
    (last.op = "ResponseAdapter.followup" /\ last.http # NoHttp) => inter.responded

NotOperations == {"init", "listener", "Interaction"}

\* C13: every interaction / response operation issues at most one HTTP request
\* per call, and https.request exactly one, whether the request fails or not.
C13_NoRetry ==
    /\ last.op \notin NotOperations => Len(last.http) <= 1
    /\ last.op = "https.request" => Len(last.http) = 1

\* an operation's only request failed
C13_Witness ==
    /\ last.op = "ResponseAdapter.send"
    /\ last.raised = "HTTPException"
    /\ Len(last.http) = 1

StoringOps ==
    {"ResponseAdapter.send", "ResponseAdapter.followup", "ResponseAdapter.update_message",
     "InteractionResponse.edit", "FollowupResponse.edit"}
StoresAlways ==
    {"ResponseAdapter.update_message", "InteractionResponse.edit", "FollowupResponse.edit"}

\* C14: in send, followup, update_message and edit the token is stored and the
\* view's components are registered before the request is issued: when the
\* request fails they stay in place, nothing is rolled back and the failure
\* reaches the caller.
C14_NoRollback ==
    [][(last'.op \in StoringOps /\ last'.raised = "HTTPException") =>
          /\ Len(last'.http) = 1
          /\ last'.ret = ""
          /\ (last'.args.view.given \/ last'.op \in StoresAlways) =>
                /\ inter.id \in DOMAIN cached_inter_tokens'
                /\ cached_inter_tokens'[inter.id] = inter.token
          /\ last'.args.view.components \subseteq active_components'
          /\ DOMAIN cached_inter_tokens \subseteq DOMAIN cached_inter_tokens'
          /\ active_components \subseteq active_components'
          /\ inter'.responded = inter.responded]_vars

\* a send with a view failed: its token and components are held, unresponded
C14_Witness ==
    /\ last.op = "ResponseAdapter.send"
    /\ last.raised = "HTTPException"
    /\ last.args.view.given
    /\ DOMAIN cached_inter_tokens = {inter.id}
    /\ last.args.view.components \subseteq active_components
    /\ ~inter.responded

\* C17: ResponseAdapter.autocomplete sends the first min(25, n) of the n input
\* choices, in their order.
C17_AtMost25Choices ==
    (last.op = "ResponseAdapter.autocomplete" /\ last.http # NoHttp) =>
        LET sent == last.http[1].data.choices
            given == last.args.choices
        IN  /\ Len(sent) <= 25
            /\ Len(sent) = IF Len(given) < 25 THEN Len(given) ELSE 25
            /\ \A k \in 1..Len(sent) :
                   sent[k] = [name |-> given[k][1], value |-> given[k][2]]

\* more than 25 choices were given and 25 sent
C17_Witness ==
    /\ last.op = "ResponseAdapter.autocomplete"
    /\ Len(last.args.choices) > 25
    /\ Len(last.http) = 1
    /\ Len(last.http[1].data.choices) = 25

\* C18: the payload of ResponseAdapter.defer carries data with flags 64 if and
\* only if ephemeral is true and the interaction is an application command.
C18_EphemeralOnlyForCommands ==
    (last.op = "ResponseAdapter.defer" /\ last.http # NoHttp) =>
        (last.http[1].data.ephemeral <=>
            (last.args.ephemeral /\ inter.type = "app_command"))

\* C21: ComponentInteraction.origin returns the token cached under the parent
\* interaction's id, an empty value when none is cached under that id, and
\* never the token cached under the component interaction's own id.
C21_OriginIsParentToken ==
    last.op = "ComponentInteraction.origin" =>
        /\ inter.parent \in DOMAIN cached_inter_tokens => last.tok = TokenOf(inter.parent)
        /\ inter.parent \notin DOMAIN cached_inter_tokens => last.tok = EmptyToken
        /\ last.tok # inter.token

\* the own token is cached, the parent's is not, and origin is empty
C21_Witness ==
    /\ last.op = "ComponentInteraction.origin"
    /\ inter.id \in DOMAIN cached_inter_tokens
    /\ inter.parent \notin DOMAIN cached_inter_tokens
    /\ last.tok = EmptyToken

\* the interaction types a ResponseAdapter operation rejects
Rejects(op, type) ==
    \/ op = "ResponseAdapter.send_modal" /\ type \notin {"component", "app_command"}
    \/ op = "ResponseAdapter.autocomplete" /\ type # "autocomplete"
    \/ op = "ResponseAdapter.defer" /\ type \notin {"component", "app_command", "modal_submit"}
    \/ op = "ResponseAdapter.update_message" /\ type \in {"autocomplete", "app_command"}

\* C23: a ResponseAdapter operation that rejects the interaction type raises
\* InteractionTypeMismatch before any effect: no request is issued and the
\* token cache, the active components and the responded flag are unchanged.
C23_MismatchBeforeAnyEffect ==
    [][(Rejects(last'.op, inter.type) \/ last'.raised = "InteractionTypeMismatch") =>
          /\ Rejects(last'.op, inter.type)
          /\ last'.raised = "InteractionTypeMismatch"
          /\ last'.http = NoHttp
          /\ cached_inter_tokens' = cached_inter_tokens
          /\ active_components' = active_components
          /\ inter' = inter]_vars

\* send_modal was rejected and its modal is not registered
C23_Witness ==
    /\ last.op = "ResponseAdapter.send_modal"
    /\ last.raised = "InteractionTypeMismatch"
    /\ inter.type = "modal_submit"
    /\ last.args.custom_id \notin active_components

\* C24: ResponseAdapter.defer sends exactly one callback request with the
\* interaction's own id and token, of type deferred_update_component_message
\* for a component and deferred_channel_message_with_source for an application
\* command or a modal submit.
C24_DeferCallbackType ==
    (last.op = "ResponseAdapter.defer"
        /\ inter.type \in {"component", "app_command", "modal_submit"}) =>
        /\ Len(last.http) = 1
        /\ last.http[1].call = "send_interaction_callback"
        /\ last.http[1].a = inter.id
        /\ last.http[1].token = inter.token
        /\ last.http[1].type =
              IF inter.type = "component" THEN "deferred_update_component_message"
              ELSE "deferred_channel_message_with_source"

\* a component interaction was deferred
C24_Witness ==
    /\ last.op = "ResponseAdapter.defer"
    /\ inter.type = "component"
    /\ last.raised = ""
    /\ last.http[1].type = "deferred_update_component_message"

\* the operations that put a new Interaction object in place
NewInteractionOps == {"Interaction", "listener"}

\* C25: the responded flag of an interaction becomes true only when the request
\* of ResponseAdapter.send or ResponseAdapter.defer has returned, not when it
\* failed and not in any other operation, and once true it stays true.
C25_RespondedOnlyAfterReturn ==
    [][last'.op \notin NewInteractionOps =>
          /\ inter.responded => inter'.responded
          /\ (~inter.responded /\ inter'.responded) =>
                /\ last'.op \in {"ResponseAdapter.send", "ResponseAdapter.defer"}
                /\ last'.raised = ""
                /\ Len(last'.http) = 1
          /\ (last'.op \in {"ResponseAdapter.send", "ResponseAdapter.defer"}
                /\ last'.raised = "") => inter'.responded]_vars

\* a defer whose request failed left the flag false
C25_Witness ==
    /\ last.op = "ResponseAdapter.defer"
    /\ last.raised = "HTTPException"
    /\ ~inter.responded

OriginOps ==
    {"ComponentInteraction.delete_original", "ComponentInteraction.original_message"}

\* C26: when no token is cached for the parent interaction, delete_original
\* and original_message issue no request, leave the token cache unchanged and
\* return None.
C26_NothingWithoutOrigin ==
    [][(last'.op \in OriginOps /\ inter.parent \notin DOMAIN cached_inter_tokens) =>
          /\ last'.http = NoHttp
          /\ last'.raised = ""
          /\ last'.ret = "None"
          /\ cached_inter_tokens' = cached_inter_tokens]_vars

\* delete_original without an origin: the own token stays cached
C26_Witness ==
    /\ last.op = "ComponentInteraction.delete_original"
    /\ inter.parent \notin DOMAIN cached_inter_tokens
    /\ inter.id \in DOMAIN cached_inter_tokens
    /\ last.http = NoHttp

(***************************************************************************)
(* Interaction payload and its properties (interaction.py 56-205)          *)
(***************************************************************************)
None == "None"
EmptyDict == [k \in {} |-> None]

\* dict.get(key)
dict_get(d, key) == IF key \in DOMAIN d THEN d[key] ELSE None
\* the dict without key (dict.pop leaves it so)
dict_without(d, key) == [k \in DOMAIN d \ {key} |-> d[k]]
\* d.update(other): the keys of other win
dict_update(d, other) == other @@ d

UserDict == [id |-> "u1", username |-> "name"]
MemberDicts ==
    {EmptyDict, [nick |-> "n"], [nick |-> "n", user |-> UserDict]}

\* the deserialized webhook payloads an Interaction is constructed from
BasePayload(id, type) ==
    [id |-> id, type |-> type, token |-> TokenOf(id), channel_id |-> "ch"]
Payloads ==
    {BasePayload(id, type) @@ g @@ m @@ u :
        id \in {1}, type \in ObjTypes,
        g \in {EmptyDict} \cup {[guild_id |-> "g1"]},
        m \in {EmptyDict} \cup {[member |-> x] : x \in MemberDicts},
        u \in {EmptyDict, [user |-> UserDict]}}

DataOp(op, ret, constructed) == [op |-> op, ret |-> ret, constructed |-> constructed]

HasInteraction == dlast.op # "init" /\ payload # NoObject

\* interaction.py 60-136: id, type, token, channel_id read payload[key] and
\* guild_id reads payload.get(key)
PlainProperties == {"id", "type", "token", "channel_id", "guild_id"}
Interaction_property(key) ==
    /\ HasInteraction
    /\ dlast' = DataOp("Interaction." \o key, dict_get(payload, key), dlast.constructed)
    /\ UNCHANGED <<payload, command, inter, client, last>>

\* interaction.py 171-180
Interaction_channel ==
    /\ HasInteraction
    /\ dlast' = DataOp("Interaction.channel",
                       [kind |-> "PartialChannel", data |-> [id |-> payload["channel_id"]]],
                       dlast.constructed)
    /\ UNCHANGED <<payload, command, inter, client, last>>

\* interaction.py 196-198: the payload's member dict is updated in place
author_payload(member) == [payload EXCEPT !["member"] = member]

\* interaction.py 182-200
Interaction_author ==
    /\ HasInteraction
    /\ LET member == dict_get(payload, "member")
           user == dict_get(payload, "user")
       IN  IF "member" \in DOMAIN payload /\ DOMAIN member # {}
           THEN LET \* member.update(member.pop("user", {}))
                    merged == dict_update(dict_without(member, "user"),
                                          Get(member, "user", EmptyDict))
                    result == dict_update(merged,
                                          [guild_id |-> dict_get(payload, "guild_id")])
                IN  /\ payload' = author_payload(result)
                    /\ dlast' = DataOp("Interaction.author",
                                       [kind |-> "Member", data |-> result],
                                       dlast.constructed)
           ELSE /\ payload' = payload
                /\ dlast' = DataOp("Interaction.author", [kind |-> "User", data |-> user],
                                   dlast.constructed)
    /\ UNCHANGED <<command, inter, client, last>>

\* interaction.py 202-206
Interaction_guild ==
    /\ HasInteraction
    /\ dlast' = DataOp("Interaction.guild",
                       IF "guild_id" \in DOMAIN payload
                       THEN [kind |-> "PartialGuild", id |-> payload["guild_id"]]
                       ELSE [kind |-> None],
                       dlast.constructed)
    /\ UNCHANGED <<payload, command, inter, client, last>>

property == \E key \in PlainProperties : Interaction_property(key)

\* interaction.py 56-59: self.payload = data
InitPayload ==
    /\ InitClient
    /\ command = NoObject
    /\ payload \in Payloads
    /\ dlast = DataOp("Interaction", None, payload)

NextPayload ==
    \/ property
    \/ Interaction_channel
    \/ Interaction_author
    \/ Interaction_guild

SpecPayload == InitPayload /\ [][NextPayload]_vars

\* C15: reading the properties of an Interaction, any number of times, leaves
\* its payload equal to the payload it was constructed from.
C15_ReadsKeepPayload ==
    HasInteraction => payload = dlast.constructed

(***************************************************************************)
(* ApplicationCommand (command.py 77-207)                                  *)
(***************************************************************************)
\* ApplicationCommandType members
Categories == {"slash", "user", "message"}

\* Permissions values are single bits; a list of them is folded with |
PermissionLists == {<<>>, <<1>>, <<2>>, <<1, 2>>}
RECURSIVE permissions_base(_)
permissions_base(permissions) ==
    IF permissions = <<>> THEN 0
    ELSE LET rest == permissions_base(Tail(permissions))
             bit == Head(permissions)
         IN  IF (rest \div bit) % 2 = 1 THEN rest ELSE rest + bit

SubNames == {"sub"}
MaxOptions == 2

\* an Option of the command, and its JSON
AnOption == [kind |-> "Option", name |-> "opt"]
\* SubCommand(name, description, options, callback=coro)
SubCommand(name, coro) == [kind |-> "SubCommand", name |-> name, callback |-> coro]
\* Callables: an async def, or a plain function
Callbacks == {"coroutine", "function"}
\* option.to_dict() / SubCommand.to_dict (command.py 62-70)
option_to_dict(option) ==
    IF option.kind = "SubCommand"
    THEN [type |-> "subcommand", name |-> option.name]
    ELSE [type |-> "option", name |-> option.name]
options_to_dict(options) == [k \in 1..Len(options) |-> option_to_dict(options[k])]

\* command.py 98-118
ApplicationCommand(name, description, options, dm_access, permissions, category) ==
    [kind |-> "ApplicationCommand", name |-> name, description |-> description,
     options |-> options, dm_access |-> dm_access, permissions |-> permissions,
     category |-> category, callback |-> None, data |-> EmptyDict,
     subcommands |-> EmptyDict]

HasCommand == command # NoObject

\* description and options written whatever the category
to_dict_slash_AnyCategory(data) ==
    LET d1 == IF command.description # ""
              THEN dict_update(data, [description |-> command.description]) ELSE data
    IN  IF command.options # <<>>
        THEN dict_update(d1, [options |-> options_to_dict(command.options)]) ELSE d1

\* command.py 194-198
to_dict_slash(data) ==
    IF command.category = "slash"
    THEN LET d1 == IF command.description # ""
                   THEN dict_update(data, [description |-> command.description])
                   ELSE data
         IN  IF command.options # <<>>
             THEN dict_update(d1, [options |-> options_to_dict(command.options)])
             ELSE d1
    ELSE data

\* command.py 193-207: the keys are written into self.data, which is returned
to_dict(data) ==
    LET d1 == dict_update(data, [type |-> command.category])
        d2 == to_dict_slash(d1)
        d3 == dict_update(d2, [name |-> command.name])
        d4 == IF ~command.dm_access
              THEN dict_update(d3, [dm_permission |-> command.dm_access]) ELSE d3
    IN  IF command.permissions # <<>>
        THEN dict_update(d4, [default_member_permissions |->
                                 ToString(permissions_base(command.permissions))])
        ELSE d4

\* command.py 183-207
ApplicationCommand_to_dict ==
    /\ HasCommand
    /\ command' = [command EXCEPT !.data = to_dict(command.data)]
    /\ dlast' = [op |-> "ApplicationCommand.to_dict", ret |-> to_dict(command.data)]
    /\ UNCHANGED <<payload, inter, client, last>>

\* command.py 151-181: the decorator applied to coro
ApplicationCommand_subcommand(name, coro) ==
    /\ HasCommand
    /\ Len(command.options) < MaxOptions
    /\ LET subcommand == SubCommand(name, coro)
           registered == coro = "coroutine"
       IN  /\ command' =
                  [command EXCEPT
                      !.options = Append(@, subcommand),
                      !.subcommands = IF registered
                                      THEN dict_update(@, name :> subcommand) ELSE @]
           /\ dlast' = [op |-> "ApplicationCommand.subcommand", name |-> name,
                        coro |-> coro,
                        ret |-> IF registered THEN subcommand ELSE [kind |-> None]]
    /\ UNCHANGED <<payload, inter, client, last>>

\* the fields of a command are plain attributes: command.dm_access = value
ApplicationCommand_set_dm_access(value) ==
    /\ HasCommand
    /\ command.dm_access # value
    /\ command' = [command EXCEPT !.dm_access = value]
    /\ dlast' = [op |-> "ApplicationCommand.dm_access", ret |-> [kind |-> None]]
    /\ UNCHANGED <<payload, inter, client, last>>

\* command.permissions = value
ApplicationCommand_set_permissions(value) ==
    /\ HasCommand
    /\ command.permissions # value
    /\ command' = [command EXCEPT !.permissions = value]
    /\ dlast' = [op |-> "ApplicationCommand.permissions", ret |-> [kind |-> None]]
    /\ UNCHANGED <<payload, inter, client, last>>

\* command.py 124-134: self.callback = coro
ApplicationCommand_on_interaction(coro) ==
    /\ HasCommand
    /\ command.callback # coro
    /\ command' = [command EXCEPT !.callback = coro]
    /\ dlast' = [op |-> "ApplicationCommand.on_interaction", ret |-> [kind |-> None]]
    /\ UNCHANGED <<payload, inter, client, last>>

\* the arguments of a call: none, an interaction whose data holds the command's
\* name and id, an interaction whose data holds neither
CallArgs ==
    {<<>>, <<[kind |-> "Interaction", data |-> [name |-> "cmd", id |-> "c1"]]>>,
     <<[kind |-> "Interaction", data |-> EmptyDict]>>}

\* self.callback(*args, **kwargs): the callback is run once with the arguments
CallEvent(op, callback, args) ==
    [op |-> op, callback |-> callback, args |-> args, raised |-> "",
     invoked |-> <<[callback |-> callback, args |-> args]>>,
     ret |-> [kind |-> "result", of |-> callback, args |-> args]]
\* the call left by an exception before the callback is reached
RaiseEvent(op, callback, args, raised) ==
    [op |-> op, callback |-> callback, args |-> args, raised |-> raised,
     invoked |-> <<>>, ret |-> [kind |-> None]]

\* command.py 120-123
ApplicationCommand_call(args) ==
    /\ HasCommand
    /\ dlast' = IF command.callback = None
                THEN RaiseEvent("ApplicationCommand.__call__", command.callback, args,
                                "RuntimeWarning")
                ELSE CallEvent("ApplicationCommand.__call__", command.callback, args)
    /\ UNCHANGED <<command, payload, inter, client, last>>

\* command.py 41-44: the message of the warning reads args[0].data['name'] and
\* args[0].data['id'] before RuntimeWarning is constructed
warning_message_raises(args) ==
    IF Len(args) = 0 THEN "IndexError"
    ELSE IF {"name", "id"} \subseteq DOMAIN args[1].data THEN "" ELSE "KeyError"

\* command.py 39-45, on a SubCommand built with or without a callback
SubCommand_call(sub, args) ==
    /\ HasCommand
    /\ dlast' = IF sub.callback = None
                THEN RaiseEvent("SubCommand.__call__", sub.callback, args,
                                IF warning_message_raises(args) = ""
                                THEN "RuntimeWarning" ELSE warning_message_raises(args))
                ELSE CallEvent("SubCommand.__call__", sub.callback, args)
    /\ UNCHANGED <<command, payload, inter, client, last>>

command_subcommand ==
    \E name \in SubNames, coro \in Callbacks : ApplicationCommand_subcommand(name, coro)
set_dm_access == \E value \in BOOLEAN : ApplicationCommand_set_dm_access(value)
set_permissions == \E value \in PermissionLists : ApplicationCommand_set_permissions(value)
on_interaction == \E coro \in Callbacks : ApplicationCommand_on_interaction(coro)
command_call == \E args \in CallArgs : ApplicationCommand_call(args)
subcommand_call ==
    \E name \in SubNames, callback \in Callbacks \cup {None}, args \in CallArgs :
        SubCommand_call(SubCommand(name, callback), args)

InitCommand ==
    /\ InitClient
    /\ payload = NoObject
    /\ command \in {ApplicationCommand("cmd", description, options, dm_access,
                                       permissions, category) :
                       description \in {"", "about"}, options \in {<<>>, <<AnOption>>},
                       dm_access \in BOOLEAN, permissions \in PermissionLists,
                       category \in Categories}
    /\ dlast = [op |-> "ApplicationCommand", ret |-> [kind |-> None]]

NextCommand ==
    \/ ApplicationCommand_to_dict
    \/ command_subcommand
    \/ set_dm_access
    \/ set_permissions

SpecCommand == InitCommand /\ [][NextCommand]_vars

\* a command, its callback and the calls of commands and subcommands
NextCall ==
    \/ on_interaction
    \/ command_call
    \/ subcommand_call

SpecCall == InitCommand /\ [][NextCall]_vars

\* the JSON of the command's field values, built into an empty dict
FreshJson == to_dict(EmptyDict)

\* C16: ApplicationCommand.to_dict returns the JSON of the command's current
\* field values only, whatever earlier to_dict calls returned: a key whose field
\* has been cleared since is not in the result.
C16_ToDictCurrentFieldsOnly ==
    dlast.op = "ApplicationCommand.to_dict" => dlast.ret = FreshJson

\* C19: for a command whose category is not slash, the result of to_dict has no
\* 'description' and no 'options' key, whatever the command was built with.
C19_NoDescriptionForNonSlash ==
    (dlast.op = "ApplicationCommand.to_dict" /\ command.category # "slash") =>
        /\ "description" \notin DOMAIN dlast.ret
        /\ "options" \notin DOMAIN dlast.ret

\* a user command built with a description and options was serialized
C19_Witness ==
    /\ dlast.op = "ApplicationCommand.to_dict"
    /\ command.category = "user"
    /\ command.description # ""
    /\ command.options # <<>>
    /\ DOMAIN dlast.ret = {"type", "name"}

\* C20: after the subcommand decorator is applied to a callback, the command's
\* options contain a SubCommand with that name, subcommands[name] is that
\* SubCommand, and the decorator returns it.
C20_SubcommandRegistered ==
    dlast.op = "ApplicationCommand.subcommand" =>
        LET subcommand == SubCommand(dlast.name, dlast.coro)
        IN  /\ \E k \in 1..Len(command.options) : command.options[k] = subcommand
            /\ dlast.name \in DOMAIN command.subcommands
            /\ command.subcommands[dlast.name] = subcommand
            /\ dlast.ret = subcommand

CallOps == {"ApplicationCommand.__call__", "SubCommand.__call__"}

\* C22: calling an ApplicationCommand or a SubCommand that has no callback
\* raises RuntimeWarning and invokes nothing; with a callback set the call
\* invokes it exactly once with the same arguments and returns its result.
C22_CallNeedsCallback ==
    dlast.op \in CallOps =>
        IF dlast.callback = None
        THEN dlast.raised = "RuntimeWarning" /\ dlast.invoked = <<>>
        ELSE /\ dlast.raised = ""
             /\ dlast.invoked = <<[callback |-> dlast.callback, args |-> dlast.args]>>
             /\ dlast.ret = [kind |-> "result", of |-> dlast.callback, args |-> dlast.args]

====
